---------------------------- MODULE Spec2Model ----------------------------
(***************************************************************************)
(* water_usage (src/index.js): a command-line logger that prompts for a    *)
(* whole number of litres, upserts today's record in water_usage.json,     *)
(* prints a comparison against two baselines and, on Mondays, the change   *)
(* between the previous two Monday-Sunday weeks.                           *)
(*                                                                         *)
(* Modelling conventions                                                   *)
(*  - A JavaScript string is a sequence of one-character strings.          *)
(*  - A JavaScript Date is its local time value, an integer number of      *)
(*    clock ticks; there are TicksPerDay ticks in a calendar day (the      *)
(*    code only ever looks at calendar fields, so the millisecond is       *)
(*    coarsened to a tick).  Time zone offset and DST are not modelled.    *)
(*  - A JavaScript value that may be a non-number (a record's amount read  *)
(*    from the file, a sum) is a record [t, v]; see Num, NaN, Str ...      *)
(*  - A non-integer number (a percentage before rounding) is an exact      *)
(*    fraction [n, d] with d > 0.                                          *)
(***************************************************************************)
EXTENDS Integers, Sequences, FiniteSets, TLC

VARIABLES
    now,          \* the system clock: the local time value new Date() returns
    file,         \* water_usage.json: [kind, entries]
    pc,           \* where the running invocation is
    amount,       \* the value promptForUsage resolved with
    entry,        \* the record saveEntry returned
    exitCode,     \* the process exit status, -1 while running
    out,          \* what the invocation printed so far, in order
    fileAtStart,  \* the file as it was when the invocation started
    answer,       \* the line the user typed at the prompt
    checkedOn,    \* `today` of maybePrintWeeklyChange: the Date it took from the clock
    args,         \* the arguments of a function applied on its own
    ret           \* and its result

vars == <<now, file, pc, amount, entry, exitCode, out, fileAtStart, answer, checkedOn, args, ret>>

---------------------------------------------------------------------------
(* Bounds of the model *)

TicksPerDay == 2

\* how many ticks the clock may advance while the program is observed
MaxTicks == 4

\* the Mondays getWeekRange is applied to lie within this many days of FirstDay
MaxDays == 800

\* totals of a week in the weekly report applied on its own
MaxTotal == 50

\* amounts and baselines percentDiff is applied to
MaxAmount == 180

MaxBaseline == 40

---------------------------------------------------------------------------
(* Program constants *)

LOCAL_AVERAGE_LITRES == 150

GLOBAL_AVERAGE_LITRES == 173

---------------------------------------------------------------------------
(* Strings and numbers *)

DigitChars == <<"0", "1", "2", "3", "4", "5", "6", "7", "8", "9">>

Digit == {DigitChars[i] : i \in 1..10}

WhiteSpace == {" ", "\t", "\n"}

DigitValue(c) == (CHOOSE i \in 1..10 : DigitChars[i] = c) - 1

RECURSIVE DecimalDigits(_)
\* the decimal digits of a natural number, as String(n) writes them
DecimalDigits(n) ==
    IF n < 10 THEN <<DigitChars[n + 1]>>
    ELSE Append(DecimalDigits(n \div 10), DigitChars[(n % 10) + 1])

\* String(n), the conversion a template literal `${n}` applies to an integer
NumberToString(n) ==
    IF n < 0 THEN <<"-">> \o DecimalDigits(-n) ELSE DecimalDigits(n)

RECURSIVE PadStart(_, _, _)
\* String.prototype.padStart(len, c)
PadStart(s, len, c) == IF Len(s) >= len THEN s ELSE PadStart(<<c>> \o s, len, c)

RECURSIVE TrimStart(_)
TrimStart(s) ==
    IF s # <<>> /\ Head(s) \in WhiteSpace THEN TrimStart(Tail(s)) ELSE s

RECURSIVE TrimEnd(_)
TrimEnd(s) ==
    IF s # <<>> /\ s[Len(s)] \in WhiteSpace
    THEN TrimEnd(SubSeq(s, 1, Len(s) - 1)) ELSE s

\* String.prototype.trim()
Trim(s) == TrimEnd(TrimStart(s))

\* /^\d+$/.test(s)
IsAllDigits(s) == Len(s) > 0 /\ \A i \in 1..Len(s) : s[i] \in Digit

RECURSIVE DigitsValue(_)
DigitsValue(s) ==
    IF s = <<>> THEN 0
    ELSE 10 * DigitsValue(SubSeq(s, 1, Len(s) - 1)) + DigitValue(s[Len(s)])

RECURSIVE LeadingDigits(_)
LeadingDigits(s) ==
    IF s # <<>> /\ Head(s) \in Digit THEN <<Head(s)>> \o LeadingDigits(Tail(s))
    ELSE <<>>

RECURSIVE Split(_, _)
\* String.prototype.split(sep) for a one-character separator
Split(s, sep) ==
    IF \A i \in 1..Len(s) : s[i] # sep THEN <<s>>
    ELSE LET k == CHOOSE i \in 1..Len(s) :
                      s[i] = sep /\ \A j \in 1..(i - 1) : s[j] # sep
         IN  <<SubSeq(s, 1, k - 1)>> \o Split(SubSeq(s, k + 1, Len(s)), sep)

---------------------------------------------------------------------------
(* JavaScript values *)

Num(n) == [t |-> "num", v |-> n]

NaN == [t |-> "nan", v |-> 0]

Str(s) == [t |-> "str", v |-> s]

Bool(b) == [t |-> "bool", v |-> b]

Null == [t |-> "null", v |-> 0]

\* the value of a property the object does not have
Undefined == [t |-> "undefined", v |-> 0]

\* ToBoolean(x) is false
Falsy(x) ==
    \/ x.t \in {"undefined", "null", "nan"}
    \/ x.t = "num" /\ x.v = 0
    \/ x.t = "str" /\ x.v = <<>>
    \/ x.t = "bool" /\ x.v = FALSE

\* Number(x).  A string is trimmed; the empty string is 0, a run of decimal
\* digits is its value and any other text is NaN (signs, fractions and
\* exponents are outside the character set the model's strings use).
ToNumber(x) ==
    CASE x.t = "num" -> x
      [] x.t = "nan" -> NaN
      [] x.t = "undefined" -> NaN
      [] x.t = "null" -> Num(0)
      [] x.t = "bool" -> Num(IF x.v THEN 1 ELSE 0)
      [] x.t = "str" ->
            LET s == Trim(x.v)
            IN  IF s = <<>> THEN Num(0)
                ELSE IF IsAllDigits(s) THEN Num(DigitsValue(s))
                ELSE NaN

\* a + b on numbers
JsAdd(a, b) == IF a.t = "nan" \/ b.t = "nan" THEN NaN ELSE Num(a.v + b.v)

\* Math.floor in the place of Math.round
MathFloor(q) == q.n \div q.d

\* Math.round of the fraction n/d, d > 0: the integer floor(n/d + 1/2)
MathRound(q) == (2 * q.n + q.d) \div (2 * q.d)

\* Number.prototype.toFixed(1) of a whole number
ToFixed1(n) == NumberToString(n) \o <<".", "0">>

---------------------------------------------------------------------------
(* The local calendar of Date (ECMAScript's Day Number and Time Value       *)
(* definitions, with the tick in the place of the millisecond)             *)

Day(t) == t \div TicksPerDay

TimeWithinDay(t) == t % TicksPerDay

MakeDate(day, time) == day * TicksPerDay + time

DaysInYear(y) ==
    IF y % 4 # 0 THEN 365
    ELSE IF y % 100 # 0 THEN 366
    ELSE IF y % 400 # 0 THEN 365
    ELSE 366

DayFromYear(y) ==
    365 * (y - 1970) + ((y - 1969) \div 4) - ((y - 1901) \div 100)
        + ((y - 1601) \div 400)

YearFromDay(day) ==
    CHOOSE y \in (1969 + (day \div 366))..(1971 + (day \div 365)) :
        DayFromYear(y) <= day /\ day < DayFromYear(y + 1)

InLeapYear(y) == IF DaysInYear(y) = 366 THEN 1 ELSE 0

\* the day within the year on which month m (0-11) starts
MonthStart(m, leap) ==
    CASE m = 0 -> 0
      [] m = 1 -> 31
      [] m = 2 -> 59 + leap
      [] m = 3 -> 90 + leap
      [] m = 4 -> 120 + leap
      [] m = 5 -> 151 + leap
      [] m = 6 -> 181 + leap
      [] m = 7 -> 212 + leap
      [] m = 8 -> 243 + leap
      [] m = 9 -> 273 + leap
      [] m = 10 -> 304 + leap
      [] m = 11 -> 334 + leap
      [] m = 12 -> 365 + leap

\* Date.prototype.getFullYear()
getFullYear(t) == YearFromDay(Day(t))

DayWithinYear(t) == Day(t) - DayFromYear(getFullYear(t))

\* Date.prototype.getMonth(), 0-11
getMonth(t) ==
    LET leap == InLeapYear(getFullYear(t))
        d == DayWithinYear(t)
    IN  CHOOSE m \in 0..11 : MonthStart(m, leap) <= d /\ d < MonthStart(m + 1, leap)

\* Date.prototype.getDate(), 1-31
getDate(t) ==
    DayWithinYear(t) - MonthStart(getMonth(t), InLeapYear(getFullYear(t))) + 1

\* Date.prototype.getDay(), 0 = Sunday; day 0 (1970-01-01) was a Thursday
getDay(t) == (Day(t) + 4) % 7

\* MakeDay(year, month, date): month may lie outside 0-11 and date outside
\* the month; both are carried
MakeDay(year, month, date) ==
    LET ym == year + (month \div 12)
        mn == month % 12
    IN  DayFromYear(ym) + MonthStart(mn, InLeapYear(ym)) + date - 1

\* Date.prototype.setDate(dt): the same month and time of day, day dt
setDate(t, dt) ==
    MakeDate(MakeDay(getFullYear(t), getMonth(t), dt), TimeWithinDay(t))

\* Date.prototype.setHours(0, 0, 0, 0)
setHoursZero(t) == MakeDate(Day(t), 0)

\* new Date(y, monthIndex, d): local midnight of that day
NewDate(y, monthIndex, d) == MakeDate(MakeDay(y, monthIndex, d), 0)

---------------------------------------------------------------------------
(* The program's functions *)

\* startOfDay(date): a copy of the date with the time of day set to 0:00
startOfDay(date) == setHoursZero(date)

\* toDateString(date): "YYYY-MM-DD" from the local calendar fields
toDateString(date) ==
    LET d == startOfDay(date)
        year == NumberToString(getFullYear(d))
        month == PadStart(NumberToString(getMonth(d) + 1), 2, "0")
        day == PadStart(NumberToString(getDate(d)), 2, "0")
    IN  year \o <<"-">> \o month \o <<"-">> \o day

\* parseDateString(isoDate): local midnight of the day the text names
parseDateString(isoDate) ==
    LET parts == Split(isoDate, "-")
        y == ToNumber(Str(parts[1])).v
        m == ToNumber(Str(parts[2])).v
        d == ToNumber(Str(parts[3])).v
    IN  startOfDay(NewDate(y, m - 1, d))

\* percentDiff(value, baseline), as an exact fraction
percentDiff(value, baseline) ==
    IF baseline = 0 THEN [n |-> 0, d |-> 1]
    ELSE [n |-> (value - baseline) * 100, d |-> baseline]

\* formatDiff that also writes "+" before a zero
formatDiffPlusZero(diff) ==
    LET rounded == MathRound(diff)
        sign == IF rounded >= 0 THEN <<"+">> ELSE <<>>
    IN  sign \o NumberToString(rounded) \o <<"%", " vs baseline">>

\* formatDiff(diff): the rounded percentage with "+" before a positive one
formatDiff(diff) ==
    LET rounded == MathRound(diff)
        sign == IF rounded > 0 THEN <<"+">> ELSE <<>>
    IN  sign \o NumberToString(rounded) \o <<"%", " vs baseline">>

\* getWeekRange that steps back a whole week more than it should
getWeekRangeWeekOff(today, weeksAgo) ==
    LET end0 == startOfDay(today)
        end == setDate(end0, getDate(end0) - 1 - 7 * weeksAgo)
        start0 == startOfDay(end)
        start == setDate(start0, getDate(start0) - 6)
    IN  [start |-> start, end |-> end]

\* getWeekRange(today, weeksAgo): the Monday-Sunday week weeksAgo weeks back
getWeekRange(today, weeksAgo) ==
    LET end0 == startOfDay(today)
        end == setDate(end0, getDate(end0) - 1 - 7 * (weeksAgo - 1))
        start0 == startOfDay(end)
        start == setDate(start0, getDate(start0) - 6)
    IN  [start |-> start, end |-> end]

\* the callback of filter in sumEntriesInRange
InRange(e, range) ==
    LET entryDate == parseDateString(e.date)
    IN  entryDate >= range.start /\ entryDate <= range.end

RECURSIVE Reduce(_, _, _)
\* the reduce of sumEntriesInRange over the filtered entries, left to right
Reduce(entries, range, sum) ==
    IF entries = <<>> THEN sum
    ELSE LET e == Head(entries)
         IN  Reduce(Tail(entries), range,
                    IF InRange(e, range)
                    THEN JsAdd(sum, ToNumber(IF Falsy(e.amount) THEN Num(0) ELSE e.amount))
                    ELSE sum)

\* sumEntriesInRange(entries, range)
sumEntriesInRange(entries, range) == Reduce(entries, range, Num(0))

\* what maybePrintWeeklyChange prints for a Monday `today` and the loaded entries
weeklyChange(today, entries) ==
    LET lastWeekRange == getWeekRange(today, 1)
        prevWeekRange == getWeekRange(today, 2)
        lastWeekTotal == sumEntriesInRange(entries, lastWeekRange)
        prevWeekTotal == sumEntriesInRange(entries, prevWeekRange)
        base == [kind |-> "weekly", today |-> today,
                 lastWeekRange |-> lastWeekRange, prevWeekRange |-> prevWeekRange,
                 lastWeekTotal |-> lastWeekTotal, prevWeekTotal |-> prevWeekTotal,
                 divided |-> FALSE, change |-> Num(0), text |-> <<>>]
    IN  IF prevWeekTotal = Num(0) /\ lastWeekTotal = Num(0)
        THEN [base EXCEPT !.text = <<"No data for the past two weeks yet.">>]
        ELSE IF prevWeekTotal = Num(0)
        THEN [base EXCEPT !.text = <<"No data for the prior week to compare against.">>]
        ELSE IF prevWeekTotal.t = "nan" \/ lastWeekTotal.t = "nan"
        THEN \* NaN is neither 0 nor > 0
             [base EXCEPT !.divided = TRUE, !.change = NaN,
                          !.text = <<"NaN", "%", " ", "decrease">>]
        ELSE LET change == MathRound([n |-> (lastWeekTotal.v - prevWeekTotal.v) * 100,
                                      d |-> prevWeekTotal.v])
                 direction == IF change = 0 THEN "no change"
                              ELSE IF change > 0 THEN "increase" ELSE "decrease"
                 abs == IF change < 0 THEN -change ELSE change
             IN  [base EXCEPT !.divided = TRUE, !.change = Num(change),
                              !.text = NumberToString(abs) \o <<"%", " ", direction>>]

\* what printDailyComparison prints
dailyComparison(amt) ==
    [kind |-> "daily",
     you |-> ToFixed1(amt),
     local |-> formatDiff(percentDiff(amt, LOCAL_AVERAGE_LITRES)),
     global |-> formatDiff(percentDiff(amt, GLOBAL_AVERAGE_LITRES))]

---------------------------------------------------------------------------
(* The storage file *)

FileOf(kind, entries) == [kind |-> kind, entries |-> entries]

EmptyArrayFile == FileOf("array", <<>>)

\* fs.existsSync(DATA_FILE)
existsSync(f) == f.kind # "missing"

\* ensureDataFile(): the file afterwards
ensureDataFile(f) == IF ~existsSync(f) THEN EmptyArrayFile ELSE f

\* loadEntries without its try/catch: a failing read or parse is raised
loadEntriesNoCatch(f) ==
    IF f.kind \in {"missing", "unreadable", "corrupt"}
    THEN [threw |-> TRUE, isArray |-> FALSE, list |-> <<>>]
    ELSE [threw |-> FALSE, isArray |-> TRUE, list |-> f.entries]

\* loadEntries(): readFileSync throws on a missing or unreadable file,
\* JSON.parse on text that is not JSON; the catch turns both into []
loadEntries(f) ==
    LET readThrows == f.kind \in {"missing", "unreadable"}
        parseThrows == f.kind = "corrupt"
        isArray == f.kind = "array"
    IN  IF readThrows \/ parseThrows THEN [threw |-> FALSE, isArray |-> TRUE, list |-> <<>>]
        ELSE IF isArray THEN [threw |-> FALSE, isArray |-> TRUE, list |-> f.entries]
        ELSE [threw |-> FALSE, isArray |-> TRUE, list |-> <<>>]

\* entries.findIndex((e) => e.date === today), 0 for JavaScript's -1
findIndex(entries, today) ==
    IF \E i \in 1..Len(entries) : entries[i].date = today
    THEN CHOOSE i \in 1..Len(entries) :
             entries[i].date = today /\ \A j \in 1..(i - 1) : entries[j].date # today
    ELSE 0

\* an upsert that never looks for an existing record
upsertAlwaysPush(entries, e) == Append(entries, e)

\* an upsert that drops the existing record and appends the new one
upsertMoveToEnd(entries, e) ==
    LET keep == {i \in 1..Len(entries) : entries[i].date # e.date}
        nth(k) == CHOOSE i \in keep : Cardinality({j \in keep : j < i}) = k - 1
    IN  Append([k \in 1..Cardinality(keep) |-> entries[nth(k)]], e)

\* the entries saveEntry writes back
upsert(entries, e) ==
    LET existingIndex == findIndex(entries, e.date)
    IN  IF existingIndex >= 1 THEN [entries EXCEPT ![existingIndex] = e]
        ELSE Append(entries, e)

\* saveEntry(amount) run when the clock reads t: the file afterwards and the
\* entry returned; threw when a call in it raised
saveEntry(f, t, amt) ==
    LET loaded == loadEntries(f)
        today == toDateString(t)
        e == [date |-> today, amount |-> Num(amt)]
    IN  IF loaded.threw \/ ~loaded.isArray
        THEN [threw |-> TRUE, file |-> f, entry |-> e]
        ELSE [threw |-> FALSE, file |-> FileOf("array", upsert(loaded.list, e)), entry |-> e]

\* the test without its end anchor and repetition, /^\d/
isWholeNumberPrefix(trimmed) == trimmed # <<>> /\ Head(trimmed) \in Digit

\* the test promptForUsage applies to the trimmed answer
isWholeNumber(trimmed) == IsAllDigits(trimmed)

\* parseFloat(trimmed): the value of the leading decimal digits
parseFloat(trimmed) == DigitsValue(LeadingDigits(trimmed))

---------------------------------------------------------------------------
(* One invocation after another of the program, and the clock *)

NoAnswer == <<"(none)">>

NoEntry == [date |-> <<>>, amount |-> Undefined]

Rec(y, m, d, amt) == [date |-> toDateString(NewDate(y, m - 1, d)), amount |-> Num(amt)]

\* the clock when the program is first observed: the last tick of Sunday 2024-01-14
StartTime == MakeDate(MakeDay(2024, 0, 14), TicksPerDay - 1)

EndTime == StartTime + MaxTicks

\* the storage file the first invocation finds: absent, unusable, empty, or
\* what earlier invocations (the last one under a clock since set back) left
InitFiles ==
    { FileOf("missing", <<>>), FileOf("unreadable", <<>>), FileOf("corrupt", <<>>),
      FileOf("nonarray", <<>>), EmptyArrayFile,
      FileOf("array", <<Rec(2024, 1, 1, 40), Rec(2024, 1, 8, 50)>>),
      FileOf("array", <<Rec(2024, 1, 15, 60), Rec(2024, 1, 10, 30)>>) }

\* what the user may type at the prompt
Answers ==
    { <<"0">>, <<" ", "4", "5", "\t">>, <<"5", "0">>,
      <<"1", "2", ".", "5">>, <<"a", "b", "c">>, <<"-", "3">>, <<>>, <<" ">> }

Fresh ==
    /\ pc = "run"
    /\ amount = -1
    /\ entry = NoEntry
    /\ exitCode = -1
    /\ out = <<>>
    /\ answer = NoAnswer
    /\ checkedOn = -1

Init ==
    /\ now = StartTime
    /\ file \in InitFiles
    /\ fileAtStart = file
    /\ Fresh
    /\ args = <<>>
    /\ ret = <<>>

\* lines 11-16: --help or -h prints the usage text and exits 0
Help ==
    /\ pc = "run"
    /\ pc' = "exited"
    /\ out' = <<[kind |-> "help"]>>
    /\ exitCode' = 0
    /\ UNCHANGED <<now, file, amount, entry, fileAtStart, answer, checkedOn, args, ret>>

\* run() up to the prompt: ensureDataFile, then the question is asked
Run ==
    /\ pc = "run"
    /\ file' = ensureDataFile(file)
    /\ pc' = "prompt"
    /\ UNCHANGED <<now, amount, entry, exitCode, out, fileAtStart, answer, checkedOn, args, ret>>

\* the callback of rl.question: the promise is resolved or rejected
Answer ==
    /\ pc = "prompt"
    /\ \E a \in Answers :
          LET trimmed == Trim(a)
          IN  /\ answer' = a
              /\ IF ~isWholeNumber(trimmed)
                 THEN pc' = "catch" /\ amount' = amount
                 ELSE pc' = "then_save" /\ amount' = parseFloat(trimmed)
    /\ UNCHANGED <<now, file, entry, exitCode, out, fileAtStart, checkedOn, args, ret>>

\* the .catch callback: the message goes to standard error, exit status 1
Catch ==
    /\ pc = "catch"
    /\ out' = Append(out, [kind |-> "error"])
    /\ exitCode' = 1
    /\ pc' = "exited"
    /\ UNCHANGED <<now, file, amount, entry, fileAtStart, answer, checkedOn, args, ret>>

\* the .then callback, line 24: saveEntry(amount)
SaveEntry ==
    /\ pc = "then_save"
    /\ LET r == saveEntry(file, now, amount)
       IN  IF r.threw
           THEN pc' = "catch" /\ UNCHANGED <<file, entry>>
           ELSE pc' = "then_daily" /\ file' = r.file /\ entry' = r.entry
    /\ UNCHANGED <<now, amount, exitCode, out, fileAtStart, answer, checkedOn, args, ret>>

\* the .then callback, line 25: printDailyComparison(entry.amount)
PrintDailyComparison ==
    /\ pc = "then_daily"
    /\ out' = Append(out, dailyComparison(entry.amount.v))
    /\ pc' = "then_weekly"
    /\ UNCHANGED <<now, file, amount, entry, exitCode, fileAtStart, answer, checkedOn, args, ret>>

\* the week's first day taken for getDay's 0
isMondayZeroBased(t) == getDay(t) = 0

\* the test of line 114, today.getDay() !== 1, is false
isMonday(t) == getDay(t) = 1

\* the .then callback, line 26: maybePrintWeeklyChange(); the process then
\* ends with status 0
MaybePrintWeeklyChange ==
    /\ pc = "then_weekly"
    /\ checkedOn' = startOfDay(now)
    /\ IF ~isMonday(checkedOn')
       THEN out' = out
       ELSE LET loaded == loadEntries(file)
            IN  out' = Append(out, weeklyChange(checkedOn', loaded.list))
    /\ exitCode' = 0
    /\ pc' = "exited"
    /\ UNCHANGED <<now, file, amount, entry, fileAtStart, answer, args, ret>>

\* the next invocation of the program starts
NextInvocation ==
    /\ pc = "exited"
    /\ pc' = "run"
    /\ amount' = -1
    /\ entry' = NoEntry
    /\ exitCode' = -1
    /\ out' = <<>>
    /\ answer' = NoAnswer
    /\ checkedOn' = -1
    /\ fileAtStart' = file
    /\ UNCHANGED <<now, file, args, ret>>

\* time passes
Tick ==
    /\ now < EndTime
    /\ now' = now + 1
    /\ UNCHANGED <<file, pc, amount, entry, exitCode, out, fileAtStart, answer, checkedOn, args, ret>>

Next ==
    \/ Help
    \/ Run
    \/ Answer
    \/ Catch
    \/ SaveEntry
    \/ PrintDailyComparison
    \/ MaybePrintWeeklyChange
    \/ NextInvocation
    \/ Tick

Spec == Init /\ [][Next]_vars

---------------------------------------------------------------------------
(* Properties of the invocations *)

\* the records load returns for a file, in the words of the specification:
\* the array's records, and none for a file that holds no array
Stored(f) == IF f.kind = "array" THEN f.entries ELSE <<>>

Kinds == [i \in 1..Len(out) |-> out[i].kind]

\* the prompt was answered with a whole number: after trimming, a non-empty
\* run of decimal digits
ValidAnswer == answer # NoAnswer /\ IsAllDigits(Trim(answer))

InvalidAnswer == answer # NoAnswer /\ ~IsAllDigits(Trim(answer))

\* saveEntry has completed in the running invocation
Saved == pc \in {"then_daily", "then_weekly", "exited"} /\ entry # NoEntry

\* the days the clock has shown since the program was first observed
DaysSoFar == {toDateString(t) : t \in StartTime..now}

\* C1: the stored collection never holds two records of one calendar day,
\* and once an upsert has completed there is exactly one record of its day,
\* holding the amount entered (so also when that day was upserted before).
C1_OneRecordPerDay ==
    /\ \A i, j \in 1..Len(Stored(file)) :
           Stored(file)[i].date = Stored(file)[j].date => i = j
    /\ Saved =>
           /\ Cardinality({i \in 1..Len(Stored(file)) : Stored(file)[i].date = entry.date}) = 1
           /\ \A i \in 1..Len(Stored(file)) :
                  Stored(file)[i].date = entry.date => Stored(file)[i].amount = Num(amount)
           /\ entry.date \in DaysSoFar

\* the same day upserted a second time with the same amount n
C1_Witness ==
    /\ Saved
    /\ Stored(file) = <<entry>>
    /\ Stored(fileAtStart) = <<entry>>
    /\ entry.amount = Num(45)

C7_StepOrder ==
    LET written == /\ entry # NoEntry
                   /\ entry.amount = Num(amount)
                   /\ \E i \in 1..Len(Stored(file)) : Stored(file)[i] = entry
    IN  ValidAnswer =>
          /\ pc \in {"then_save", "then_daily", "then_weekly", "exited"}
          /\ pc = "then_save" => out = <<>> /\ entry = NoEntry
          /\ pc = "then_daily" => out = <<>> /\ written
          /\ pc = "then_weekly" => Kinds = <<"daily">> /\ written
          /\ pc = "exited" =>
                /\ written
                /\ exitCode = 0
                /\ IF (Day(checkedOn) + 4) % 7 = 1
                   THEN /\ Kinds = <<"daily", "weekly">>
                        /\ out[2].today = checkedOn
                        /\ out[2].lastWeekTotal =
                               sumEntriesInRange(Stored(file), out[2].lastWeekRange)
                        /\ out[2].prevWeekTotal =
                               sumEntriesInRange(Stored(file), out[2].prevWeekRange)
                   ELSE Kinds = <<"daily">>

\* an invocation that printed both reports
C7_Witness ==
    /\ pc = "exited"
    /\ ValidAnswer
    /\ Kinds = <<"daily", "weekly">>

\* an invocation on another day than Monday that ended after the daily report
C7_WitnessNoWeekly ==
    /\ pc = "exited"
    /\ ValidAnswer
    /\ Kinds = <<"daily">>

\* C8: an upsert changes nothing but today's record: the others keep their
\* positions, today's record takes the place of the one it replaces, or is
\* appended when there was none.
C8_Frame ==
    LET before == Stored(fileAtStart)
        after == Stored(file)
        had == {i \in 1..Len(before) : before[i].date = entry.date}
    IN  IF Saved
        THEN IF had # {}
             THEN /\ Len(after) = Len(before)
                  /\ \A i \in 1..Len(before) :
                         after[i] = IF i \in had THEN entry ELSE before[i]
             ELSE after = Append(before, entry)
        ELSE after = before

\* today's record replaced in place ahead of another day's record
C8_Witness ==
    /\ Saved
    /\ Len(Stored(fileAtStart)) = 2
    /\ Stored(fileAtStart)[1].date = entry.date
    /\ Stored(fileAtStart)[1] # entry
    /\ Stored(file)[1] = entry

\* a record appended to a file that held other days' records
C8_WitnessAppend ==
    /\ Saved
    /\ Len(Stored(fileAtStart)) = 2
    /\ Len(Stored(file)) = 3

C10_SavedRecordOutsideWeeks ==
    (pc = "exited" /\ "weekly" \in {Kinds[i] : i \in 1..Len(Kinds)}) =>
        LET w == out[2]
            d == parseDateString(entry.date)
        IN  /\ d = w.today
            /\ ~(w.lastWeekRange.start <= d /\ d <= w.lastWeekRange.end)
            /\ ~(w.prevWeekRange.start <= d /\ d <= w.prevWeekRange.end)

---------------------------------------------------------------------------
(* The functions applied on their own: Init draws the arguments, the one   *)
(* action applies the function                                             *)

\* the program itself is not running
AppOff ==
    /\ now = StartTime
    /\ file = EmptyArrayFile
    /\ fileAtStart = EmptyArrayFile
    /\ amount = -1
    /\ entry = NoEntry
    /\ exitCode = -1
    /\ out = <<>>
    /\ answer = NoAnswer
    /\ checkedOn = -1

Return(value) ==
    /\ pc = "call"
    /\ pc' = "returned"
    /\ ret' = value
    /\ UNCHANGED <<now, file, amount, entry, exitCode, out, fileAtStart, answer, checkedOn, args>>

\* ---- getWeekRange ----

\* the first day of the period the Mondays are drawn from: 2023-12-01
FirstDay == MakeDay(2023, 11, 1)

Mondays == {MakeDate(d, 0) : d \in {x \in FirstDay..(FirstDay + MaxDays) : (x + 4) % 7 = 1}}

InitWeekRange ==
    /\ AppOff
    /\ pc = "call"
    /\ args \in [fn : {"getWeekRange"}, today : Mondays]
    /\ ret = <<>>

\* lines 119-120 of maybePrintWeeklyChange
ApplyGetWeekRange ==
    /\ args.fn = "getWeekRange"
    /\ Return([lastWeekRange |-> getWeekRange(args.today, 1),
               prevWeekRange |-> getWeekRange(args.today, 2)])

NextWeekRange == ApplyGetWeekRange

SpecWeekRange == InitWeekRange /\ [][NextWeekRange]_vars

\* a range is the 7 days from a Monday 0:00 to the following Sunday 0:00
IsMondayToSunday(r) ==
    /\ TimeWithinDay(r.start) = 0
    /\ TimeWithinDay(r.end) = 0
    /\ Day(r.end) - Day(r.start) + 1 = 7
    /\ (Day(r.start) + 4) % 7 = 1
    /\ (Day(r.end) + 4) % 7 = 0

\* C4: for a Monday `today`, both ranges are 7 inclusive days from a Monday
\* to a Sunday, they are disjoint, the earlier ends the day before the later
\* starts, and the later ends the day before today.
C4_WeekRanges ==
    (pc = "returned" /\ args.fn = "getWeekRange") =>
        LET l == ret.lastWeekRange
            p == ret.prevWeekRange
        IN  /\ IsMondayToSunday(l)
            /\ IsMondayToSunday(p)
            /\ p.end < l.start
            /\ Day(p.end) + 1 = Day(l.start)
            /\ Day(l.end) = Day(args.today) - 1
            /\ Day(p.end) = Day(args.today) - 8

\* Monday 2024-01-01: both weeks lie in the month and the year before
C4_Witness ==
    /\ pc = "returned"
    /\ args.fn = "getWeekRange"
    /\ toDateString(args.today) = <<"2", "0", "2", "4", "-", "0", "1", "-", "0", "1">>
    /\ toDateString(ret.lastWeekRange.start) = <<"2", "0", "2", "3", "-", "1", "2", "-", "2", "5">>
    /\ toDateString(ret.lastWeekRange.end) = <<"2", "0", "2", "3", "-", "1", "2", "-", "3", "1">>
    /\ toDateString(ret.prevWeekRange.start) = <<"2", "0", "2", "3", "-", "1", "2", "-", "1", "8">>

\* Monday 2024-03-04: the last week holds the leap day
C4_WitnessLeap ==
    /\ pc = "returned"
    /\ args.fn = "getWeekRange"
    /\ toDateString(args.today) = <<"2", "0", "2", "4", "-", "0", "3", "-", "0", "4">>
    /\ toDateString(ret.lastWeekRange.start) = <<"2", "0", "2", "4", "-", "0", "2", "-", "2", "6">>

\* ---- the weekly report ----

ScenarioMonday == NewDate(2024, 0, 15)

\* a record of the prior week, one of the last week, and possibly a third
\* on the edge of a week or outside both
WeeklyEntries ==
    LET two == {<<Rec(2024, 1, 1, b), Rec(2024, 1, 8, a)>> : a \in 0..MaxTotal, b \in 0..MaxTotal}
        third == {Rec(2024, 1, 7, 30), Rec(2024, 1, 14, 30), Rec(2024, 1, 15, 30),
                  Rec(2023, 12, 31, 30)}
    IN  two \cup {Append(e, x) : e \in two, x \in third}

InitWeekly ==
    /\ AppOff
    /\ pc = "call"
    /\ args \in [fn : {"weeklyChange"}, today : {ScenarioMonday}, entries : WeeklyEntries]
    /\ ret = <<>>

\* lines 118-140 of maybePrintWeeklyChange
ApplyWeeklyChange ==
    /\ args.fn = "weeklyChange"
    /\ Return(weeklyChange(args.today, args.entries))

NextWeekly == ApplyWeeklyChange

SpecWeekly == InitWeekly /\ [][NextWeekly]_vars

\* C3: the policy of the weekly report over the two totals, and the totals
\* and the text of the scenario of 2024-01-15.
C3_WeeklyPolicy ==
    (pc = "returned" /\ args.fn = "weeklyChange") =>
        LET l == ret.lastWeekTotal.v
            p == ret.prevWeekTotal.v
            c == ret.change.v
            abs == IF c < 0 THEN -c ELSE c
            off == c * p - 100 * (l - p)
            label == IF c > 0 THEN "increase" ELSE IF c < 0 THEN "decrease" ELSE "no change"
        IN  /\ ret.lastWeekTotal.t = "num" /\ ret.prevWeekTotal.t = "num"
            /\ (p = 0 /\ l = 0) =>
                   ret.text = <<"No data for the past two weeks yet.">> /\ ~ret.divided
            /\ (p = 0 /\ l # 0) =>
                   /\ ret.text = <<"No data for the prior week to compare against.">>
                   /\ ~ret.divided
            /\ p # 0 =>
                   /\ ret.divided
                   /\ ret.change.t = "num"
                   \* c is the whole number nearest to (l - p) / p * 100
                   /\ 2 * (IF off < 0 THEN -off ELSE off) <= p
                   /\ ret.text = DecimalDigits(abs) \o <<"%", " ", label>>
            /\ args.entries = <<Rec(2024, 1, 1, 40), Rec(2024, 1, 8, 50)>> =>
                   /\ l = 50
                   /\ p = 40
                   /\ ret.text = <<"2", "5", "%", " ", "increase">>

\* the scenario of 2024-01-15
C3_Witness ==
    /\ pc = "returned"
    /\ args.fn = "weeklyChange"
    /\ args.entries = <<Rec(2024, 1, 1, 40), Rec(2024, 1, 8, 50)>>
    /\ ret.text = <<"2", "5", "%", " ", "increase">>

\* ---- sumEntriesInRange ----

\* what JSON.parse can give for a record's amount, or the record has none
JsonAmounts ==
    { Undefined, Null, Num(0), Num(5), Num(40), Str(<<>>), Str(<<"a", "b", "c">>),
      Str(<<"1", "2">>), Bool(TRUE), Bool(FALSE) }

SumRange == [start |-> NewDate(2024, 0, 8), end |-> NewDate(2024, 0, 14)]

SumRecords ==
    {[date |-> toDateString(NewDate(2024, 0, d)), amount |-> a] :
        d \in {7, 8, 14, 15}, a \in JsonAmounts}

InitSum ==
    /\ AppOff
    /\ pc = "call"
    /\ args \in [fn : {"sumEntriesInRange"}, range : {SumRange},
                 entries : {<<>>} \cup {<<r>> : r \in SumRecords}
                           \cup {<<r, q>> : r \in SumRecords, q \in SumRecords}]
    /\ ret = <<>>

ApplySumEntriesInRange ==
    /\ args.fn = "sumEntriesInRange"
    /\ Return(sumEntriesInRange(args.entries, args.range))

NextSum == ApplySumEntriesInRange

SpecSum == InitSum /\ [][NextSum]_vars

\* the number an amount stands for in the specification's sum: the amount
\* when it is a number (or text that writes one), and zero when it is
\* missing or anything else
Contribution(a) ==
    IF a.t = "num" THEN a.v
    ELSE IF a.t = "str" /\ IsAllDigits(a.v) THEN DigitsValue(a.v)
    ELSE 0

RECURSIVE SumOfNumbersWithin(_, _)
\* the sum the specification gives over the records dated within the
\* range, bounds included
SumOfNumbersWithin(entries, range) ==
    IF entries = <<>> THEN 0
    ELSE LET e == Head(entries)
             d == parseDateString(e.date)
             within == range.start <= d /\ d <= range.end
         IN  (IF within THEN Contribution(e.amount) ELSE 0)
                 + SumOfNumbersWithin(Tail(entries), range)

\* C5: sumInRange is the sum of amount over the records dated within the
\* range, bounds included, where an amount that is missing or is not a
\* number counts as zero; it is 0 when no record matches.
C5_SumInRange ==
    (pc = "returned" /\ args.fn = "sumEntriesInRange") =>
        ret = Num(SumOfNumbersWithin(args.entries, args.range))

\* ---- percentDiff and formatDiff ----

InitDiff ==
    /\ AppOff
    /\ pc = "call"
    /\ args \in [fn : {"percentDiff"}, value : 0..MaxAmount,
                 baseline : (0..MaxBaseline) \cup {LOCAL_AVERAGE_LITRES, GLOBAL_AVERAGE_LITRES}]
    /\ ret = <<>>

\* percentDiff and formatDiff as printDailyComparison applies them
ApplyPercentDiff ==
    /\ args.fn = "percentDiff"
    /\ LET diff == percentDiff(args.value, args.baseline)
       IN  Return([diff |-> diff, text |-> formatDiff(diff)])

NextDiff == ApplyPercentDiff

SpecDiff == InitDiff /\ [][NextDiff]_vars

\* C6: percentDiff is 0 for a baseline of 0 and for an amount equal to the
\* baseline, and (amount - baseline) / baseline * 100 otherwise; the text
\* shows the whole percent nearest to it, with "+" exactly when that is
\* positive, "-" exactly when it is negative and no sign when it is zero.
C6_PercentDiff ==
    (pc = "returned" /\ args.fn = "percentDiff") =>
        LET v == args.value
            b == args.baseline
            n == ret.diff.n
            d == ret.diff.d
            rendered(r) ==
                (IF r > 0 THEN <<"+">> ELSE IF r < 0 THEN <<"-">> ELSE <<>>)
                    \o DecimalDigits(IF r < 0 THEN -r ELSE r) \o <<"%", " vs baseline">>
            nearest(r) == LET off == r * d - n IN 2 * (IF off < 0 THEN -off ELSE off) <= d
        IN  /\ d > 0
            /\ (b = 0 \/ v = b) => n = 0
            /\ b # 0 => n * b = (v - b) * 100 * d
            /\ \E r \in {n \div d, (n \div d) + 1} : nearest(r) /\ ret.text = rendered(r)
            /\ (v = 45 /\ b = 150) => ret.text = <<"-", "7", "0", "%", " vs baseline">>
            /\ (v = 150 /\ b = 150) => ret.text = <<"0", "%", " vs baseline">>

\* 45 litres against the local baseline of 150
C6_Witness ==
    /\ pc = "returned"
    /\ args.fn = "percentDiff"
    /\ args.value = 45
    /\ args.baseline = 150
    /\ ret.text = <<"-", "7", "0", "%", " vs baseline">>

=============================================================================
